---- MODULE Spec2Model ----
(***************************************************************************)
(* Model of src/src/main.rs: execution_order, the simulation of a single   *)
(* non-preemptive processor that runs, among the queued tasks, the one     *)
(* with the lowest time to complete.                                       *)
(*                                                                         *)
(* The function is deterministic; the model draws its argument from a      *)
(* bounded set in Init and then follows the function statement by          *)
(* statement: the sort (line 25), the loop test with the match on          *)
(* rposition (lines 31-46) and the execution of the first queue entry      *)
(* (lines 48-51).  `log` is a history variable with one record per loop    *)
(* iteration; it does not influence the program variables.                 *)
(***************************************************************************)
EXTENDS Naturals, Integers, Sequences, FiniteSets, TLC

\* ------------------------------------------------------------- bounds ----
\* Spec: every input of at most MaxTasks tasks with distinct ids.
MaxTasks == 3
MaxQueuedAt == 2
MaxDuration == 1
\* SpecOrdered: longer inputs, ids 1..n in input order.
MaxOrderedTasks == 4
MaxOrderedTime == 3

VARIABLES input, tasks, q, time, executed, pc, log

vars == <<input, tasks, q, time, executed, pc, log>>

\* ------------------------------------------------------- struct Task ----
TaskIds == 1..MaxTasks

Task(i, qa, d) == [id |-> i, queued_at |-> qa, execution_duration |-> d]

\* The key under which a task is stored in the BTreeMap q (line 40).
Key(task) == <<task.execution_duration, task.id>>

\* Variant: the id is compared in descending order.
KeyLessIdDescending(a, b) == \/ a[1] < b[1]
                             \/ a[1] = b[1] /\ a[2] > b[2]

\* Ord of the tuple (u32, u64): lexicographic.
KeyLess(a, b) == \/ a[1] < b[1]
                 \/ a[1] = b[1] /\ a[2] < b[2]

Range(s) == {s[i] : i \in 1..Len(s)}

UniqueIds(s) == \A i, j \in 1..Len(s) : s[i].id = s[j].id => i = j

\* ------------------------------------------------ Vec / BTreeMap ops ----
\* Where a stable sort puts x in the sorted prefix s: after every element
\* whose key is <= the key of x.
InsertByQueuedAt(s, x) ==
    LET k == Cardinality({i \in 1..Len(s) : s[i].queued_at <= x.queued_at})
    IN  SubSeq(s, 1, k) \o <<x>> \o SubSeq(s, k + 1, Len(s))

\* Variant: the vector is left in the order of the argument.
NoSort(s) == s

RECURSIVE SortByQueuedAt(_)
\* tasks.sort_by_key(|task| task.queued_at): stable, ascending.
SortByQueuedAt(s) ==
    IF s = <<>> THEN <<>>
    ELSE InsertByQueuedAt(SortByQueuedAt(SubSeq(s, 1, Len(s) - 1)), s[Len(s)])

\* Variant: a task counts as arrived one time unit early.
ArrivedOneEarly(task, now) == task.queued_at <= now + 1

\* The arrival test of the closure passed to rposition.
Arrived(task, now) == task.queued_at <= now

\* Variant: position instead of rposition, the first position that satisfies
\* the test.
PositionFirst(s, now) ==
    LET hits == {i \in 1..Len(s) : Arrived(s[i], now)}
    IN  IF hits = {} THEN 0 ELSE CHOOSE i \in hits : \A j \in hits : i <= j

\* tasks.iter().rposition(..): the last position that satisfies the test,
\* counted from 1; 0 stands for None.
RPosition(s, now) ==
    LET hits == {i \in 1..Len(s) : Arrived(s[i], now)}
    IN  IF hits = {} THEN 0 ELSE CHOOSE i \in hits : \A j \in hits : j <= i

\* tasks.drain(..index + 1): the elements removed, and what stays.
Drained(s, index) == SubSeq(s, 1, index)

\* Variant: the last drained element also stays in the vector.
RemainingFromIndex(s, index) == SubSeq(s, index, Len(s))

Remaining(s, index) == SubSeq(s, index + 1, Len(s))

\* Variant: the map is keyed on the id alone.
MapInsertById(m, task) == {t \in m : t.id # task.id} \cup {task}

\* Variant: the map is keyed on the execution_duration alone.
MapInsertByDuration(m, task) ==
    {t \in m : t.execution_duration # task.execution_duration} \cup {task}

\* BTreeMap::insert: an entry with the same key is replaced.  The map is
\* the set of its values, at most one per key, because the key of an entry
\* is computed from its value.
MapInsert(m, task) == {t \in m : Key(t) # Key(task)} \cup {task}

RECURSIVE Extend(_, _)
\* q.extend(iterator): inserts in iteration order.
Extend(m, s) ==
    IF s = <<>> THEN m ELSE Extend(MapInsert(m, Head(s)), Tail(s))

\* Variant: the entry with the greatest key is taken.
LastEntry(m) == CHOOSE t \in m : \A u \in m : ~KeyLess(Key(t), Key(u))

\* map.keys().cloned().next(): the entry with the least key.
FirstEntry(m) == CHOOSE t \in m : \A u \in m : ~KeyLess(Key(u), Key(t))

\* Variant: the first negation of the test is missing.
LoopCondMissingNot(ts, m) == ts = <<>> \/ m # {}

\* The loop test of line 31.
LoopCond(ts, m) == ts # <<>> \/ m # {}

\* Variant: the clock is assigned the duration instead of advanced by it.
DurationOnly(now, task) == task.execution_duration

\* time += current_task.execution_duration
AddDuration(now, task) == now + task.execution_duration

\* Variant: the clock is set to the queued_at of the last backlog task.
IdleTimeLast(ts) == ts[Len(ts)].queued_at

\* Variant: the clock is set one unit before the first backlog arrival.
IdleTimeOneBefore(ts) == ts[1].queued_at - 1

\* None => time = tasks.first().unwrap().queued_at
IdleTime(ts) == ts[1].queued_at

\* ------------------------------------------------- the loop's halves ----
\* Variant: the None arm advances the clock by the queued_at of the first
\* backlog task instead of setting it.
AbsorbAdvancing(ts, m, now) ==
    LET index == IF ts = <<>> THEN 0 ELSE RPosition(ts, now)
    IN  IF ts = <<>> THEN [tasks |-> ts, q |-> m, time |-> now, moved |-> 0]
        ELSE IF index # 0
             THEN [tasks |-> Remaining(ts, index),
                   q     |-> Extend(m, Drained(ts, index)),
                   time  |-> now,
                   moved |-> index]
             ELSE [tasks |-> ts, q |-> m, time |-> now + IdleTime(ts),
                   moved |-> 0]

\* lines 33-46: what the first half of an iteration leaves in tasks, q, time.
Absorb(ts, m, now) ==
    LET index == IF ts = <<>> THEN 0 ELSE RPosition(ts, now)
    IN  IF ts = <<>> THEN [tasks |-> ts, q |-> m, time |-> now, moved |-> 0]
        ELSE IF index # 0
             THEN [tasks |-> Remaining(ts, index),
                   q     |-> Extend(m, Drained(ts, index)),
                   time  |-> now,
                   moved |-> index]
             ELSE [tasks |-> ts, q |-> m, time |-> IdleTime(ts), moved |-> 0]

RECURSIVE Loop(_, _, _, _)
\* lines 31-54 as a function: the value of `executed` when the loop ends.
Loop(ts, m, now, out) ==
    IF ~LoopCond(ts, m) THEN out
    ELSE LET a == Absorb(ts, m, now)
         IN  IF a.q = {} THEN Loop(a.tasks, a.q, a.time, out)
             ELSE LET current_task == FirstEntry(a.q)
                  IN  Loop(a.tasks, a.q \ {current_task},
                           AddDuration(a.time, current_task),
                           Append(out, current_task.id))

\* execution_order as a function of its argument.
ExecutionOrder(ts) == Loop(SortByQueuedAt(ts), {}, 0, <<>>)

\* ------------------------------------------ execution_order_original ----
\* tasks.iter().take_while(|task| task.queued_at <= time): the longest
\* prefix whose elements all satisfy the test.
TakeWhileQueued(s, now) ==
    LET stops == {i \in 1..Len(s) : ~(s[i].queued_at <= now)}
    IN  IF stops = {} THEN s
        ELSE SubSeq(s, 1, (CHOOSE i \in stops : \A j \in stops : i <= j) - 1)

\* .min_by_key(|task| task.execution_duration) on a non-empty sequence: of
\* several minimal elements the first.
MinByDuration(s) ==
    LET least == {i \in 1..Len(s) :
                    \A j \in 1..Len(s) :
                        s[i].execution_duration <= s[j].execution_duration}
    IN  s[CHOOSE i \in least : \A j \in least : i <= j]

\* tasks.iter().position(|task| task.id == current_task.id).unwrap()
PositionOfId(s, id) ==
    LET hits == {i \in 1..Len(s) : s[i].id = id}
    IN  CHOOSE i \in hits : \A j \in hits : i <= j

\* tasks.remove(index)
RemoveAt(s, index) == SubSeq(s, 1, index - 1) \o SubSeq(s, index + 1, Len(s))

RECURSIVE OriginalLoop(_, _, _)
\* lines 67-93: the value of `result` when the loop is left.
OriginalLoop(ts, now, result) ==
    LET ready == TakeWhileQueued(ts, now)
    IN  IF ready # <<>>
        THEN LET current_task == MinByDuration(ready)
                 pushed == Append(result, current_task.id)
             IN  IF ts = <<>> THEN pushed
                 ELSE OriginalLoop(RemoveAt(ts, PositionOfId(ts, current_task.id)),
                                   now + current_task.execution_duration,
                                   pushed)
        ELSE IF ts # <<>>
             THEN OriginalLoop(ts, ts[1].queued_at, result)
             ELSE result

\* execution_order_original as a function of its argument.
ExecutionOrderOriginal(ts) ==
    IF ts = <<>> THEN <<>> ELSE OriginalLoop(SortByQueuedAt(ts), 0, <<>>)

\* ---------------------------------------------------- history record ----
\* One record per loop iteration: the state the iteration started from,
\* which arm of the match it took, and what it ran.
NewIteration(a, jump) ==
    [start     |-> time,
     ready     |-> q,
     backlog   |-> tasks,
     moved     |-> a.moved,
     jumped    |-> jump,
     pick_time |-> a.time,
     pick_from |-> a.q,
     waiting   |-> a.tasks,
     ran       |-> <<>>,
     end       |-> a.time]

Last(s) == s[Len(s)]

SetLast(s, r) == [s EXCEPT ![Len(s)] = r]

\* --------------------------------------------------------------- Init ----
InitRun ==
    /\ tasks = input
    /\ q = {}
    /\ time = 0
    /\ executed = <<>>
    /\ pc = "start"
    /\ log = <<>>

\* Any order, distinct ids.
Init ==
    /\ \E n \in 0..MaxTasks :
         \E ids \in [1..n -> TaskIds] :
           /\ \A i, j \in 1..n : ids[i] = ids[j] => i = j
           /\ \E qs \in [1..n -> 0..MaxQueuedAt], ds \in [1..n -> 0..MaxDuration] :
                input = [i \in 1..n |-> Task(ids[i], qs[i], ds[i])]
    /\ InitRun

\* Ids 1..n in input order.
InitOrdered ==
    /\ \E n \in 0..MaxOrderedTasks :
         \E qs \in [1..n -> 0..MaxOrderedTime], ds \in [1..n -> 0..MaxOrderedTime] :
           input = [i \in 1..n |-> Task(i, qs[i], ds[i])]
    /\ InitRun

\* Two ids, so that an input of three tasks repeats one.
DuplicateIds == {1, 2}

\* Any order, ids that may repeat.
InitDuplicates ==
    /\ \E n \in 0..MaxTasks :
         \E ids \in [1..n -> DuplicateIds],
            qs \in [1..n -> 0..MaxQueuedAt],
            ds \in [1..n -> 0..MaxDuration] :
           input = [i \in 1..n |-> Task(ids[i], qs[i], ds[i])]
    /\ InitRun

\* The inputs of the tests (lines 100-259).
ReverseQueueOrder == <<Task(42, 5, 3), Task(43, 2, 3), Task(44, 0, 2)>>

TwoItemsQueuedAtOnce == <<Task(42, 0, 3), Task(43, 1, 3), Task(44, 2, 2)>>

Idle == <<Task(42, 0, 1), Task(43, 3, 3)>>

TwoItemsSameQueueTimeAndExecDuration == <<Task(42, 1, 3), Task(43, 1, 3)>>

TaskInsertedIntoQueue ==
    <<Task(42, 0, 3), Task(43, 1, 5), Task(44, 2, 6), Task(45, 5, 1)>>

Scenarios == {ReverseQueueOrder, TwoItemsQueuedAtOnce, Idle,
              TwoItemsSameQueueTimeAndExecDuration, TaskInsertedIntoQueue}

\* A test input, or some of its tasks, in any order.
InitScenario ==
    /\ \E s \in Scenarios :
         \E n \in 0..Len(s) :
           \E f \in [1..n -> 1..Len(s)] :
             /\ \A i, j \in 1..n : f[i] = f[j] => i = j
             /\ input = [i \in 1..n |-> s[f[i]]]
    /\ InitRun

\* ------------------------------------------------------------ actions ----
\* lines 23-28
Sort ==
    /\ pc = "start"
    /\ tasks' = SortByQueuedAt(tasks)
    /\ pc' = "loop"
    /\ UNCHANGED <<input, q, time, executed, log>>

\* line 31 fails; line 54
LoopExit ==
    /\ pc = "loop"
    /\ ~LoopCond(tasks, q)
    /\ pc' = "done"
    /\ UNCHANGED <<input, tasks, q, time, executed, log>>

\* line 31 holds; lines 33-41: Some(index)
AbsorbArrived ==
    /\ pc = "loop"
    /\ LoopCond(tasks, q)
    /\ tasks # <<>>
    /\ RPosition(tasks, time) # 0
    /\ LET a == Absorb(tasks, q, time)
       IN  /\ q' = a.q
           /\ tasks' = a.tasks
           /\ log' = Append(log, NewIteration(a, FALSE))
    /\ pc' = "exec"
    /\ UNCHANGED <<input, time, executed>>

\* line 31 holds; lines 33-34, 44: None
IdleJump ==
    /\ pc = "loop"
    /\ LoopCond(tasks, q)
    /\ tasks # <<>>
    /\ RPosition(tasks, time) = 0
    /\ LET a == Absorb(tasks, q, time)
       IN  /\ time' = a.time
           /\ log' = Append(log, NewIteration(a, TRUE))
    /\ pc' = "exec"
    /\ UNCHANGED <<input, tasks, q, executed>>

\* line 31 holds; line 33: tasks is empty
AbsorbSkip ==
    /\ pc = "loop"
    /\ LoopCond(tasks, q)
    /\ tasks = <<>>
    /\ log' = Append(log, NewIteration(Absorb(tasks, q, time), FALSE))
    /\ pc' = "exec"
    /\ UNCHANGED <<input, tasks, q, time, executed>>

\* lines 48-51: Some(current_task)
ExecuteTask ==
    /\ pc = "exec"
    /\ q # {}
    /\ LET current_task == FirstEntry(q)
       IN  /\ q' = q \ {current_task}
           /\ time' = AddDuration(time, current_task)
           /\ executed' = Append(executed, current_task.id)
           /\ log' = SetLast(log, [Last(log) EXCEPT
                                     !.ran = <<current_task>>,
                                     !.end = AddDuration(time, current_task)])
    /\ pc' = "loop"
    /\ UNCHANGED <<input, tasks>>

\* line 48: None
ExecuteNothing ==
    /\ pc = "exec"
    /\ q = {}
    /\ pc' = "loop"
    /\ UNCHANGED <<input, tasks, q, time, executed, log>>

Next ==
    \/ Sort
    \/ LoopExit
    \/ AbsorbArrived
    \/ IdleJump
    \/ AbsorbSkip
    \/ ExecuteTask
    \/ ExecuteNothing

Spec == Init /\ [][Next]_vars

SpecOrdered == InitOrdered /\ [][Next]_vars

SpecScenario == InitScenario /\ [][Next]_vars

SpecDuplicates == InitDuplicates /\ [][Next]_vars

\* ------------------------------------------------------------ sanity ----
TypeOK ==
    /\ pc \in {"start", "loop", "exec", "done"}
    /\ time \in Nat
    /\ Len(executed) <= Len(input)

\* The steps of the run and the function Loop compute the same result.
RunIsExecutionOrder == pc = "done" => executed = ExecutionOrder(input)

\* Until the return some step of the function is enabled: with
\* C12_LoopTerminates and C19_DuplicateIdsAccepted, every run returns.
NoStuckState == pc # "done" => ENABLED Next

\* The iterations the log holds are complete except, at "exec", the last.
Complete(i) == i < Len(log) \/ (i = Len(log) /\ pc \in {"loop", "done"})

\* ============================================================= claims ====
Ids(s) == {s[i].id : i \in 1..Len(s)}

\* Where id stands in the output (0: nowhere).
Position(out, id) ==
    IF \E j \in 1..Len(out) : out[j] = id
    THEN CHOOSE j \in 1..Len(out) : out[j] = id
    ELSE 0

MinQueuedAt(ts) ==
    CHOOSE x \in {t.queued_at : t \in ts} : \A t \in ts : x <= t.queued_at

LeastKey(ts) == CHOOSE t \in ts : \A u \in ts : ~KeyLess(Key(u), Key(t))

RECURSIVE SptOrder(_, _)
\* The completion order of a non-preemptive shortest-processing-time-first
\* processor: `waiting` are the tasks not yet run, `clock` the time at which
\* the processor is free.
SptOrder(waiting, clock) ==
    IF waiting = {} THEN <<>>
    ELSE LET arrived == {t \in waiting : t.queued_at <= clock}
         IN  IF arrived = {}
             THEN SptOrder(waiting, MinQueuedAt(waiting))
             ELSE LET t == LeastKey(arrived)
                  IN  <<t.id>> \o SptOrder(waiting \ {t},
                                           clock + t.execution_duration)

\* C1: for an input with unique ids, the sequence returned is the completion
\* order of a shortest-processing-time-first processor that starts at clock
\* 0, runs the arrived task with the least (execution_duration, id) when
\* there is one, and moves the clock to the next arrival only when there is
\* none.
C1_ReturnsSptCompletionOrder ==
    (pc = "done" /\ UniqueIds(input)) =>
        executed = SptOrder(Range(input), 0)

\* C2: for an input with unique ids, the sequence returned has the length of
\* the input and holds every input id exactly once and no other id.
C2_OutputIsPermutationOfIds ==
    (pc = "done" /\ UniqueIds(input)) =>
        /\ Len(executed) = Len(input)
        /\ \A i \in 1..Len(input) :
             Cardinality({j \in 1..Len(executed) : executed[j] = input[i].id}) = 1
        /\ \A j \in 1..Len(executed) : executed[j] \in Ids(input)

C2_Witness ==
    /\ pc = "done"
    /\ Len(input) >= 3
    /\ \E i, j \in 1..Len(input) :
         i # j /\ input[i].execution_duration = input[j].execution_duration

\* C3: whenever a task is appended to the output, it has the least
\* (execution_duration, id) among all tasks not yet run whose queued_at is
\* <= the clock at the moment of the pick, whether they wait in the ready
\* set or still in the backlog.
C3_PickIsLeastOfAllArrived ==
    \A i \in 1..Len(log) :
        log[i].ran # <<>> =>
            \A t \in log[i].pick_from \cup Range(log[i].waiting) :
                t.queued_at <= log[i].pick_time =>
                    ~KeyLess(Key(t), Key(log[i].ran[1]))

Permuted(s, p) == [i \in 1..Len(s) |-> s[p[i]]]

IdsAscending(s) == \A i, j \in 1..Len(s) : i < j => s[i].id < s[j].id

\* C4: permuting the input does not change the sequence returned: the run on
\* an input (taken with its ids ascending, which every input with unique ids
\* is a permutation of) returns what execution_order returns on every
\* permutation of that input.
C4_InputOrderIsIrrelevant ==
    (pc = "done" /\ IdsAscending(input)) =>
        \A p \in Permutations(1..Len(input)) :
            ExecutionOrder(Permuted(input, p)) = executed

C4_Witness ==
    /\ pc = "done"
    /\ IdsAscending(input)
    /\ Len(input) >= 3
    /\ \E i, j \in 1..Len(input) :
         i < j /\ input[i].queued_at > input[j].queued_at

\* C5: two tasks with equal queued_at and equal execution_duration stand in
\* the output in ascending order of their ids.
C5_TiesInAscendingIdOrder ==
    (pc = "done" /\ UniqueIds(input)) =>
        \A i, j \in 1..Len(input) :
            ( /\ input[i].queued_at = input[j].queued_at
              /\ input[i].execution_duration = input[j].execution_duration
              /\ input[i].id < input[j].id )
            => /\ Position(executed, input[i].id) # 0
               /\ Position(executed, input[i].id) < Position(executed, input[j].id)

C5_Witness ==
    /\ pc = "done"
    /\ \E i, j \in 1..Len(input) :
         /\ i < j
         /\ input[i].queued_at = input[j].queued_at
         /\ input[i].execution_duration = input[j].execution_duration
         /\ input[i].id > input[j].id
         /\ input[i].queued_at > 0

\* C6: no task is started before it has arrived: the clock at the pick is
\* >= the queued_at of the task picked, and no task is in the ready set
\* while its queued_at is greater than the clock.
C6_NoStartBeforeArrival ==
    /\ \A t \in q : t.queued_at <= time
    /\ \A i \in 1..Len(log) :
         /\ \A t \in log[i].pick_from : t.queued_at <= log[i].pick_time
         /\ log[i].ran # <<>> => log[i].ran[1].queued_at <= log[i].pick_time

C6_Witness ==
    /\ pc = "done"
    /\ \E i \in 1..Len(log) :
         /\ log[i].ran # <<>>
         /\ log[i].ran[1].queued_at = log[i].pick_time
         /\ log[i].pick_time > 0
         /\ log[i].start > 0

\* C7: on the empty input the empty sequence is returned and the loop body
\* is executed zero times.
C7_EmptyInput ==
    input = <<>> =>
        /\ executed = <<>>
        /\ log = <<>>
        /\ pc \in {"start", "loop", "done"}

C7_Witness == input = <<>> /\ pc = "done"

\* The iteration that follows the one that ran task `id`.
AfterRunOf(id) ==
    {i \in 2..Len(log) : log[i - 1].ran # <<>> /\ log[i - 1].ran[1].id = id}

\* The test's input returns [42, 43, 45, 44], and 45 is picked ahead of 44,
\* both ready, in the iteration that starts when 43 has run, at clock `free`.
TaskInsertedAt(free) ==
    (input = TaskInsertedIntoQueue /\ pc = "done") =>
        /\ executed = <<42, 43, 45, 44>>
        /\ AfterRunOf(43) # {}
        /\ \A i \in AfterRunOf(43) :
             /\ log[i].start = free
             /\ log[i].pick_time = free
             /\ log[i].ran # <<>> /\ log[i].ran[1].id = 45
             /\ \E t \in log[i].pick_from : t.id = 44

C9_JumpOnlyWhenIdle ==
    \A i \in 1..Len(log) :
        /\ log[i].jumped => log[i].ready = {}
        /\ log[i].ran # <<>> =>
               log[i].end = log[i].start + log[i].ran[1].execution_duration

\* The iteration starts with nothing ready and nothing arrived.
IdleAt(i) ==
    /\ log[i].ready = {}
    /\ log[i].backlog # <<>>
    /\ \A t \in Range(log[i].backlog) : t.queued_at > log[i].start

\* C10: an iteration that starts with the ready set empty and no backlog
\* task arrived sets the clock to the smallest queued_at of the backlog and
\* appends nothing; the iteration right after it moves at least one task
\* into the ready set and runs one task.
C10_IdleIterationThenRun ==
    \A i \in 1..Len(log) :
        (IdleAt(i) /\ Complete(i)) =>
            /\ log[i].end = MinQueuedAt(Range(log[i].backlog))
            /\ log[i].ran = <<>>
            /\ log[i].moved = 0
            /\ pc = "done" => i < Len(log)
            /\ (i < Len(log) /\ Complete(i + 1)) =>
                   /\ log[i + 1].start = log[i].end
                   /\ log[i + 1].moved >= 1
                   /\ log[i + 1].ran # <<>>

C10_Witness ==
    /\ pc = "done"
    /\ \E i \in 2..Len(log) :
         /\ IdleAt(i)
         /\ Cardinality({t.queued_at : t \in Range(log[i].backlog)}) >= 2

\* C11: an iteration that runs a task of execution_duration 0 ends with the
\* clock at its value at the start of the iteration; the task still takes
\* one pick and one place in the output.
C11_ZeroDurationKeepsClock ==
    /\ \A i \in 1..Len(log) :
         (log[i].ran # <<>> /\ log[i].ran[1].execution_duration = 0) =>
             log[i].end = log[i].start
    /\ Len(executed) = Cardinality({i \in 1..Len(log) : log[i].ran # <<>>})

\* The state of tasks and q when iteration i has ended.
BacklogAfter(i) == IF i < Len(log) THEN log[i + 1].backlog ELSE tasks

ReadyAfter(i) == IF i < Len(log) THEN log[i + 1].ready ELSE q

\* C12: the loop terminates: an iteration either appends a task to the
\* output or is followed by an iteration that shrinks the backlog, no
\* iteration leaves backlog, ready set, clock and output all unchanged, and
\* so the loop makes at most two iterations per task.  The iterations are
\* those of the whole run, which the log holds at the return.
C12_LoopTerminates ==
    /\ Len(log) <= 2 * Len(input)
    /\ pc = "done" =>
           \A i \in 1..Len(log) :
               /\ log[i].ran = <<>> =>
                      /\ i < Len(log)
                      /\ Len(log[i + 1].waiting) < Len(log[i + 1].backlog)
               /\ ~ ( /\ BacklogAfter(i) = log[i].backlog
                      /\ ReadyAfter(i) = log[i].ready
                      /\ log[i].end = log[i].start
                      /\ log[i].ran = <<>> )

C12_Witness ==
    /\ pc = "done"
    /\ Len(log) = 2 * Len(input)
    /\ Len(input) >= 2

\* C13: a backlog task whose queued_at equals the clock reached right after
\* a completion is moved to the ready set before the next pick and competes
\* in it (the test is <=, not <), and after a transfer that moves tasks no
\* task with queued_at <= clock is left in the backlog; for every iteration
\* of the run, which the log holds at the return.
C13_ArrivalAtClockIsAbsorbed ==
    pc = "done" =>
        \A i \in 1..Len(log) :
            /\ (i > 1 /\ log[i - 1].ran # <<>>) =>
                   \A t \in Range(log[i].backlog) :
                       t.queued_at = log[i].start =>
                           /\ t \in log[i].pick_from
                           /\ t \notin Range(log[i].waiting)
                           /\ log[i].pick_time = log[i].start
                           /\ log[i].ran # <<>>
            /\ log[i].moved >= 1 =>
                   \A t \in Range(log[i].waiting) :
                       t.queued_at > log[i].pick_time

C13_Witness ==
    /\ pc = "done"
    /\ \E i \in 2..Len(log) :
         /\ log[i - 1].ran # <<>>
         /\ log[i - 1].ran[1].execution_duration > 0
         /\ \E t \in Range(log[i].backlog) : t.queued_at = log[i].start
         /\ log[i].waiting # <<>>

\* The input task with this id.
TaskOf(id) == CHOOSE t \in Range(input) : t.id = id

\* C14: when every task has queued_at 0 and the ids are unique, the output
\* is the list of ids in ascending order of (execution_duration, id).
C14_AllAtZeroIsSptOrder ==
    (pc = "done" /\ UniqueIds(input) /\ \A t \in Range(input) : t.queued_at = 0) =>
        /\ Len(executed) = Len(input)
        /\ Ids(input) = Range(executed)
        /\ \A i, j \in 1..Len(executed) :
             i < j =>
                 LET a == TaskOf(executed[i])
                     b == TaskOf(executed[j])
                 IN  \/ a.execution_duration < b.execution_duration
                     \/ /\ a.execution_duration = b.execution_duration
                        /\ a.id < b.id

C14_Witness ==
    /\ pc = "done"
    /\ Len(input) >= 3
    /\ \A t \in Range(input) : t.queued_at = 0
    /\ \E i, j \in 1..Len(input) :
         i < j /\ input[i].execution_duration > input[j].execution_duration

QueueIds == {t.id : t \in q}

\* Backlog, ready set and output share no task and hold the input's tasks.
Partitioned ==
    /\ Ids(tasks) \cap QueueIds = {}
    /\ Ids(tasks) \cap Range(executed) = {}
    /\ QueueIds \cap Range(executed) = {}
    /\ Ids(tasks) \cup QueueIds \cup Range(executed) = Ids(input)
    /\ Len(tasks) + Cardinality(q) + Len(executed) = Len(input)
    /\ Range(tasks) \cup q \subseteq Range(input)

\* A step moves tasks forward only: nothing enters the backlog, the ready
\* set is entered from the backlog, the output from the ready set, and the
\* output only grows at its end.
ForwardOnly ==
    /\ Range(tasks') \subseteq Range(tasks)
    /\ q' \subseteq q \cup Range(tasks)
    /\ Len(executed') >= Len(executed)
    /\ SubSeq(executed', 1, Len(executed)) = executed
    /\ \A j \in (Len(executed) + 1)..Len(executed') : executed'[j] \in QueueIds

\* C15: on an input with unique ids, in every reachable state backlog, ready
\* set and output are pairwise disjoint and together hold exactly the input
\* tasks, and a task never leaves the output nor goes back from the ready
\* set to the backlog.
C15_Lifecycle == [](UniqueIds(input) => Partitioned) /\ [][ForwardOnly]_vars

C15_Witness ==
    /\ pc = "exec"
    /\ tasks # <<>>
    /\ Cardinality(q) >= 1
    /\ executed # <<>>

\* C16: the clock never decreases, whether a step moves it to an arrival
\* time or adds the duration of a task (no u32 overflow).
C16_ClockNeverDecreases == [][time' >= time]_vars

C16_Witness ==
    /\ pc = "done"
    /\ \E i, j \in 1..Len(log) :
         /\ i < j
         /\ log[i].ran # <<>> /\ log[i].end > log[i].pick_time
         /\ log[j].jumped /\ log[j].pick_time > log[j].start

\* C17: a pick removes the ready entry with the least
\* (execution_duration, id): the task run was in the ready set, and no task
\* left in it has a smaller duration, or the same duration and a smaller id;
\* for every pick of the run, which the log holds at the return.
C17_PickRemovesLeastKey ==
    pc = "done" =>
        \A i \in 1..Len(log) :
            log[i].ran # <<>> =>
                LET run == log[i].ran[1]
                IN  /\ run \in log[i].pick_from
                    /\ ReadyAfter(i) = log[i].pick_from \ {run}
                    /\ \A t \in ReadyAfter(i) :
                         /\ t.execution_duration >= run.execution_duration
                         /\ t.execution_duration = run.execution_duration =>
                                t.id > run.id

C17_Witness ==
    /\ pc = "done"
    /\ \E i \in 1..Len(log) :
         /\ log[i].ran # <<>>
         /\ \E t, u \in log[i].pick_from :
              /\ t.execution_duration = log[i].ran[1].execution_duration
              /\ t.id > log[i].ran[1].id
              /\ u.execution_duration > log[i].ran[1].execution_duration
              /\ u.id < log[i].ran[1].id

DistinctDurations(s) ==
    \A i, j \in 1..Len(s) :
        s[i].execution_duration = s[j].execution_duration => i = j

\* C18: on an input with unique ids in which no two tasks have the same
\* execution_duration, execution_order and execution_order_original return
\* the same sequence.
C18_SameAsOriginal ==
    (pc = "done" /\ UniqueIds(input) /\ DistinctDurations(input)) =>
        executed = ExecutionOrderOriginal(input)

\* The positions of the input whose (execution_duration, id) no other
\* position shares.
UniqueKeyPositions ==
    {i \in 1..Len(input) :
        \A j \in 1..Len(input) : Key(input[j]) = Key(input[i]) => j = i}

\* How many iterations ran this task.
TimesRun(task) ==
    Cardinality({i \in 1..Len(log) : log[i].ran = <<task>>})

\* C19: an input with duplicate ids is not rejected: the loop ends (at most
\* two iterations per task), the output is no longer than the input, every output id is the id of an
\* input task, and every task whose (execution_duration, id) is unique in
\* the input is run exactly once.
C19_DuplicateIdsAccepted ==
    /\ Len(log) <= 2 * Len(input)
    /\ Len(executed) <= Len(input)
    /\ Len(executed) = Cardinality({i \in 1..Len(log) : log[i].ran # <<>>})
    /\ \A j \in 1..Len(executed) : executed[j] \in Ids(input)
    /\ \A i \in UniqueKeyPositions : TimesRun(input[i]) <= 1
    /\ pc = "done" =>
           \A i \in UniqueKeyPositions :
               /\ TimesRun(input[i]) = 1
               /\ \E j \in 1..Len(executed) : executed[j] = input[i].id

C19_Witness ==
    /\ pc = "done"
    /\ Len(executed) < Len(input)
    /\ \E i \in UniqueKeyPositions :
         \E j \in 1..Len(input) : j # i /\ input[j].id = input[i].id

LargestQueuedAt ==
    IF input = <<>> THEN 0
    ELSE CHOOSE x \in {t.queued_at : t \in Range(input)} :
             \A t \in Range(input) : t.queued_at <= x

RECURSIVE DurationRun(_)
\* The sum of the execution_duration of the tasks run in iterations 1..n.
DurationRun(n) ==
    IF n = 0 THEN 0
    ELSE DurationRun(n - 1)
         + (IF log[n].ran = <<>> THEN 0 ELSE log[n].ran[1].execution_duration)

RECURSIVE TotalDuration(_)
TotalDuration(s) ==
    IF s = <<>> THEN 0 ELSE Head(s).execution_duration + TotalDuration(Tail(s))

\* C20: in every reachable state the clock is at most the largest queued_at
\* of the input plus the sum of the execution_duration of the tasks already
\* run; hence the value of every addition time += execution_duration is at
\* most the largest queued_at plus the sum of all durations, and the
\* addition does not overflow when that sum fits in u32.
C20_ClockBound ==
    LET largest == LargestQueuedAt
        total   == TotalDuration(input)
        run     == DurationRun(Len(log))
    IN  /\ time <= largest + run
        /\ run <= total
        /\ pc = "done" =>
               \A i \in 1..Len(log) :
                   log[i].ran # <<>> =>
                       /\ log[i].end = log[i].pick_time
                                        + log[i].ran[1].execution_duration
                       /\ log[i].end <= largest + total

C20_Witness ==
    /\ pc = "done"
    /\ LargestQueuedAt > 0
    /\ time = LargestQueuedAt + TotalDuration(input)
    /\ \E i \in 1..Len(log) : log[i].jumped /\ log[i].ready # {}
====
